---------------------------- MODULE Spec2Model ----------------------------
(***************************************************************************)
(* Model of the seed-data generators of the Asana simulation repository:   *)
(* OrganizationGenerator, UserGenerator, TeamGenerator, ProjectGenerator   *)
(* and StoryGenerator (src/src/generators).                                *)
(*                                                                         *)
(* Each generator is one record-valued variable holding the fields of the  *)
(* generator object, the position of its generate() loop and the record it *)
(* built last.  A generator that is not part of a specification stays      *)
(* "idle".  Random draws are inputs chosen with \E from small sets that    *)
(* contain the end points of the ranges the code draws from.               *)
(*                                                                         *)
(* Time: UserGenerator, ProjectGenerator and TeamGenerator work in hours   *)
(* (datetime arithmetic with timedelta(days=...)), StoryGenerator in       *)
(* seconds (total_seconds()).  Floating-point values are kept as fixed-    *)
(* point integers, rounded down.                                           *)
(***************************************************************************)
EXTENDS Integers, Sequences, FiniteSets, TLC

VARIABLES ug, hire, pg, sg, tg, runs, wc, val, mn, ng

vars == <<ug, hire, pg, sg, tg, runs, wc, val, mn, ng>>

(***************************************************************************)
(* Bounds of the model                                                     *)
(***************************************************************************)
\* users generated after the founding cohort in the largest modelled run
MaxRamp == 40
\* indices after the founding cohort examined at scale
ScaleRamp == 150
\* the user count of the end-to-end scenario
ScaleTarget == 5000
\* projects generated in the largest modelled run
MaxProjects == 2
\* largest target_count of a modelled StoryGenerator run
MaxStoryTarget == 6
\* largest target_count of a modelled TeamGenerator run
MaxTeams == 3
\* number of start states of the process-wide random stream of a fresh process
EntropySeeds == 3
\* kinds of task rows in the largest modelled database
MaxTaskGroups == 2
\* start states of the random stream of a modelled run of main
MaxMainSeeds == 40
\* generate_email calls on one NameGenerator
MaxEmailCalls == 3

(***************************************************************************)
(* Arithmetic helpers                                                      *)
(***************************************************************************)
HoursPerDay == 24

Max(a, b) == IF a >= b THEN a ELSE b
Min(a, b) == IF a <= b THEN a ELSE b

Days(d) == d * HoursPerDay

\* fixed-point scale of the logarithm
LnScale == 100 * 100
\* (math.e - 1) * LnScale
EMinus1 == 17183

RECURSIVE AtanhSum(_, _, _, _)
\* sum over k >= from of z^(2k+1) / (2k+1), all values scaled by LnScale
AtanhSum(pow, z2, k, last) ==
    IF k > last THEN 0
    ELSE (pow \div (2 * k + 1))
         + AtanhSum((pow * z2) \div LnScale, z2, k + 1, last)

\* LnScale * log(1 + (num/den) * (e - 1)), for 0 <= num/den <= 1
LogGrowth(num, den) ==
    LET x  == (num * EMinus1) \div den
        z  == (x * LnScale) \div (2 * LnScale + x)
        z2 == (z * z) \div LnScale
    IN  2 * AtanhSum(z, z2, 0, 8)

(***************************************************************************)
(* Names and e-mail addresses (UserGenerator._create_email)                *)
(* A name is the sequence of its whitespace-separated tokens, a token the  *)
(* sequence of its characters.                                             *)
(***************************************************************************)
UpperChars == <<"A", "C", "D", "J", "L">>
LowerChars == <<"a", "c", "d", "j", "l">>

AlnumChars == {"A", "C", "D", "J", "L", "a", "c", "d", "e", "h", "i", "j",
               "l", "o", "r", "s", "u", "1", "2"}

LowerChar(c) ==
    IF \E k \in 1..Len(UpperChars) : UpperChars[k] = c
    THEN LowerChars[CHOOSE k \in 1..Len(UpperChars) : UpperChars[k] = c]
    ELSE c

LowerToken(t) == [k \in 1..Len(t) |-> LowerChar(t[k])]

IsAlnum(c) == c \in AlnumChars

CleanToken(t) == SelectSeq(t, IsAlnum)

\* faker.name() outcomes: "Jo Li", "Jo A. Li", "Cher"
FakerNames ==
    { << <<"J", "o">>, <<"L", "i">> >>,
      << <<"J", "o">>, <<"A", ".">>, <<"L", "i">> >>,
      << <<"C", "h", "e", "r">> >> }

OrgDomain == "dataflow.io"

\* the address first.last@domain as <<first, last, domain>>
create_email(name, domain) ==
    LET parts == [k \in 1..Len(name) |-> LowerToken(name[k])]
        first == parts[1]
        last  == IF Len(parts) >= 2 THEN parts[Len(parts)]
                 ELSE <<"u", "s", "e", "r">>
    IN  <<CleanToken(first), CleanToken(last), domain>>

(***************************************************************************)
(* UserGenerator._get_hiring_date                                          *)
(***************************************************************************)
FOUNDING_TEAM == 50

\* (now - org_created).days
TotalDays(org_created, now) == (now - org_created) \div HoursPerDay

\* month * 30, in hours, for an index after the founding team
RampHours(index, target_count, total_days) ==
    IF total_days <= 360
    THEN (HoursPerDay * total_days * LogGrowth(index, target_count))
            \div LnScale
    ELSE IF 10 * index < 6 * target_count
         THEN (HoursPerDay * 360 * LogGrowth(10 * index, 6 * target_count))
                \div LnScale
         ELSE Days(360)
              + (HoursPerDay * (total_days - 360)
                   * (10 * index - 6 * target_count))
                \div (4 * target_count)

\* days = max(0, min(days, total_months * 30))
ClampHours(h, total_days) == Max(0, Min(h, Days(total_days)))

\* a hiring date that sends every index through the growth curve
get_hiring_date_no_founders(index, target_count, org_created, now, founder_days, jitter) ==
    LET total_days == TotalDays(org_created, now)
    IN  org_created
        + ClampHours(RampHours(index, target_count, total_days) + jitter,
                     total_days)

\* founder_days = random.randint(0, 7), jitter = random.uniform(-15, 15) days
get_hiring_date(index, target_count, org_created, now, founder_days, jitter) ==
    LET total_days == TotalDays(org_created, now)
    IN  IF index < FOUNDING_TEAM
        THEN org_created + Days(founder_days)
        ELSE org_created
             + ClampHours(RampHours(index, target_count, total_days) + jitter,
                          total_days)

(***************************************************************************)
(* UserGenerator._get_last_active_date                                     *)
(***************************************************************************)
\* rand = random.random() in per mille; the uniform draw of each bucket
DaysAgoRange(rand) ==
    IF rand < 900 THEN {Days(0), Days(7)}
    ELSE IF rand < 950 THEN {Days(8), Days(30)}
    ELSE {Days(31), Days(180)}

\* a last-active date that keeps the sampled date whatever the creation date
get_last_active_date_unchecked(created_at, now, days_ago, offset_days) ==
    now - days_ago

\* days_ago = the uniform draw of the bucket, offset_days = randint(1, 30)
get_last_active_date(created_at, now, days_ago, offset_days) ==
    LET last_active == now - days_ago
    IN  IF last_active < created_at THEN created_at + Days(offset_days)
        ELSE last_active

(***************************************************************************)
(* Draws                                                                   *)
(***************************************************************************)
FounderDayDraws == {0, 7}
JitterDraws == {Days(-15), 0, Days(15)}
RandDraws == {899, 900, 950}
OffsetDayDraws == {1, 30}

\* the draws _get_hiring_date makes for an index: randint(0, 7) for the
\* founding team, uniform(-15, 15) for the others
HiringDraws(index) ==
    IF index < FOUNDING_TEAM
    THEN {[founder_days |-> d, jitter |-> 0] : d \in FounderDayDraws}
    ELSE {[founder_days |-> 0, jitter |-> j] : j \in JitterDraws}

\* randint(1, 30) is drawn only when the sampled date precedes created_at
OffsetDraws(created_at, now, days_ago) ==
    IF now - days_ago < created_at THEN OffsetDayDraws ELSE {1}

\* age of the organization in hours when the users are generated:
\* created just now, 6 months old, and the 24 months of
\* OrganizationGenerator.generate
OrgAges == {5, Days(180) + 5, Days(720) + 5}

(***************************************************************************)
(* UserGenerator                                                           *)
(***************************************************************************)
UserTargets == {0, 1, FOUNDING_TEAM, FOUNDING_TEAM + MaxRamp}

NoUser == [index |-> -1]

UserIdle == ug = [pc |-> "idle"]

\* UserGenerator.__init__ and the first lines of generate
UserStart ==
    \E age \in OrgAges, t \in UserTargets :
        ug = [pc |-> "loop", org_created |-> 0, domain |-> OrgDomain,
              now |-> age, target_count |-> t, n |-> 0, user |-> NoUser,
              emails |-> {}, inserted |-> -1]

\* one iteration of the loop of generate: _generate_user(i, org_created, now)
GenerateUser ==
    /\ ug.pc = "loop"
    /\ ug.n < ug.target_count
    /\ \E name \in FakerNames, d \in HiringDraws(ug.n), rand \in RandDraws :
        \E ago \in DaysAgoRange(rand) :
          LET email == create_email(name, ug.domain)
              created_at == get_hiring_date(ug.n, ug.target_count,
                                ug.org_created, ug.now, d.founder_days,
                                d.jitter)
          IN  \E off \in OffsetDraws(created_at, ug.now, ago) :
              LET last_active_at == get_last_active_date(created_at, ug.now,
                                        ago, off)
              IN
              ug' = [ug EXCEPT
                       !.n = @ + 1,
                       !.emails = @ \cup {email},
                       !.user = [index |-> ug.n, name |-> name,
                                 email |-> email,
                                 created_at |-> created_at,
                                 last_active_at |-> last_active_at]]
    /\ UNCHANGED <<hire, pg, sg, tg, runs, wc, val, mn, ng>>

\* _log_statistics of the user, project and team generators divides by
\* the length of the list: ZeroDivisionError on an empty list, after the
\* insert_many and before the return
AfterStatistics(count) == IF count = 0 THEN "log_raised" ELSE "done"

\* end of generate: insert_many('users', users), _log_statistics and return
InsertUsers ==
    /\ ug.pc = "loop"
    /\ ug.n = ug.target_count
    /\ ug' = [ug EXCEPT !.pc = AfterStatistics(ug.n), !.inserted = ug.n]
    /\ UNCHANGED <<hire, pg, sg, tg, runs, wc, val, mn, ng>>

NextUser == GenerateUser \/ InsertUsers

(***************************************************************************)
(* _get_hiring_date applied to single indices of large runs                *)
(***************************************************************************)
HireIdle == hire = [pc |-> "idle"]

HireTargets == {FOUNDING_TEAM + MaxRamp, ScaleTarget}

HireStart ==
    \E age \in OrgAges, t \in HireTargets :
        hire = [pc |-> "ready", org_created |-> 0, now |-> age,
                target_count |-> t, index |-> -1, created_at |-> 0]

HireIndices(t) ==
    {k \in 0..(FOUNDING_TEAM + ScaleRamp) : k < t} \cup {t - 1}

ApplyHiringDate ==
    /\ hire.pc = "ready"
    /\ \E index \in HireIndices(hire.target_count) :
        \E d \in HiringDraws(index) :
          hire' = [hire EXCEPT
                     !.pc = "applied",
                     !.index = index,
                     !.created_at = get_hiring_date(index,
                         hire.target_count, hire.org_created, hire.now,
                         d.founder_days, d.jitter)]
    /\ UNCHANGED <<ug, pg, sg, tg, runs, wc, val, mn, ng>>

NextHire == ApplyHiringDate

(***************************************************************************)
(* ProjectGenerator                                                        *)
(***************************************************************************)
\* an optional value: <<>> is None, <<v>> is the value v
None == <<>>
Some(v) == <<v>>

\* a missing identifier (assignee_id is None)
NoId == <<"none", 0>>

\* identifiers of users and tasks, and the uuid4 values minted by a stage
UserId(k) == <<"user", k>>
TaskId(k) == <<"task", k>>
StoryId(k) == <<"story", k>>
ProjectId(k) == <<"project", k>>


\* PROJECT_STATUSES with the weights in per mille
PROJECT_STATUSES ==
    << <<"planned", 200>>, <<"active", 450>>, <<"on_hold", 100>>,
       <<"completed", 200>>, <<"archived", 50>> >>

StatusDraws == {PROJECT_STATUSES[k][1] : k \in 1..Len(PROJECT_STATUSES)}

\* the priorities drawn in the model, the first and the last of PRIORITIES
PriorityDraws == {"low", "critical"}

\* int(duration_days * 0.6)
SixTenths(duration_days) == (6 * duration_days) \div 10

\* _initial_progress(status); draw is the randint of the status
initial_progress(status, draw) ==
    IF status = "planned" THEN 0
    ELSE IF status = "active" THEN draw
    ELSE IF status = "on_hold" THEN draw
    ELSE 100

\* a project whose start offset is subtracted from the creation date
generate_project_start_early(project_id, org_id, owner_id, now, d) ==
    LET created_at == now - Days(d.days_ago)
        start_date == created_at - Days(d.start_offset)
        due_date   == start_date + Days(d.duration_days)
        initial    == initial_progress(d.status, d.initial)
        completed_at ==
            IF d.status = "completed" THEN Some(start_date + Days(d.done_after))
            ELSE IF d.status = "archived"
                 THEN Some(start_date + Days(d.duration_days))
                 ELSE None
        progress ==
            IF d.status = "completed" THEN 100
            ELSE IF d.status = "archived" THEN 100
            ELSE IF d.status = "on_hold" THEN d.progress
            ELSE IF d.status = "active" THEN d.progress
            ELSE initial
    IN  [project_id |-> project_id, org_id |-> org_id, status |-> d.status,
         priority |-> d.priority, progress |-> progress,
         owner_id |-> owner_id, created_at |-> created_at,
         start_date |-> start_date, due_date |-> due_date,
         completed_at |-> completed_at]

\* _generate_project; d holds the draws of the call
generate_project(project_id, org_id, owner_id, now, d) ==
    LET created_at == now - Days(d.days_ago)
        start_date == created_at + Days(d.start_offset)
        due_date   == start_date + Days(d.duration_days)
        initial    == initial_progress(d.status, d.initial)
        completed_at ==
            IF d.status = "completed" THEN Some(start_date + Days(d.done_after))
            ELSE IF d.status = "archived"
                 THEN Some(start_date + Days(d.duration_days))
                 ELSE None
        progress ==
            IF d.status = "completed" THEN 100
            ELSE IF d.status = "archived" THEN 100
            ELSE IF d.status = "on_hold" THEN d.progress
            ELSE IF d.status = "active" THEN d.progress
            ELSE initial
    IN  [project_id |-> project_id, org_id |-> org_id, status |-> d.status,
         priority |-> d.priority, progress |-> progress,
         owner_id |-> owner_id, created_at |-> created_at,
         start_date |-> start_date, due_date |-> due_date,
         completed_at |-> completed_at]

\* randint(0, 540), randint(0, 14), randint(14, 180)
DaysAgoDraws == {0, 540}
StartOffsetDraws == {0, 14}
DurationDraws == {14, 15, 180}

\* the randint of _initial_progress for a status
InitialDraws(status) ==
    IF status = "active" THEN {5, 40}
    ELSE IF status = "on_hold" THEN {10, 50}
    ELSE {0}

\* the randint that overwrites the progress of an active or on_hold project
ProgressDraws(status) ==
    IF status = "active" THEN {5, 90}
    ELSE IF status = "on_hold" THEN {10, 60}
    ELSE {0}

\* randint(int(duration_days * 0.6), duration_days) of a completed project
DoneAfterDraws(status, duration_days) ==
    IF status = "completed" THEN {SixTenths(duration_days), duration_days}
    ELSE {0}

ProjectDraws ==
    UNION { UNION { UNION {
        { [days_ago |-> a, start_offset |-> o, duration_days |-> len,
           status |-> st, priority |-> pr, initial |-> i0, progress |-> p,
           done_after |-> c] :
            a \in DaysAgoDraws, o \in StartOffsetDraws,
            i0 \in InitialDraws(st), p \in ProgressDraws(st),
            c \in DoneAfterDraws(st, len) }
        : pr \in PriorityDraws } : len \in DurationDraws }
        : st \in StatusDraws }

ProjectUserPools == {<<>>, <<UserId(1), UserId(2)>>}

NoProject == [project_id |-> None]

ProjectIdle == pg = [pc |-> "idle"]

\* ProjectGenerator.__init__ and the first lines of generate
ProjectStart ==
    \E pool \in ProjectUserPools, t \in 0..MaxProjects :
        pg = [pc |-> "loop", org_id |-> "org1", users |-> pool,
              target_count |-> t, now |-> Days(600), projects |-> <<>>,
              project |-> NoProject, inserted |-> None]

\* one iteration of the loop of generate: _generate_project()
GenerateProject ==
    /\ pg.pc = "loop"
    /\ Len(pg.projects) < pg.target_count
    /\ pg.users # <<>>
    /\ \E d \in ProjectDraws, o \in 1..Len(pg.users) :
        LET id == ProjectId(Len(pg.projects) + 1)
            project == generate_project(id, pg.org_id, pg.users[o], pg.now, d)
        IN  pg' = [pg EXCEPT !.projects = Append(@, id),
                             !.project = project]
    /\ UNCHANGED <<ug, hire, sg, tg, runs, wc, val, mn, ng>>

\* random.choice(self.users) raises IndexError on an empty user pool
ProjectRaises ==
    /\ pg.pc = "loop"
    /\ Len(pg.projects) < pg.target_count
    /\ pg.users = <<>>
    /\ pg' = [pg EXCEPT !.pc = "raised"]
    /\ UNCHANGED <<ug, hire, sg, tg, runs, wc, val, mn, ng>>

\* end of generate: insert_many('projects', projects), _log_statistics and
\* return
InsertProjects ==
    /\ pg.pc = "loop"
    /\ Len(pg.projects) = pg.target_count
    /\ pg' = [pg EXCEPT !.pc = AfterStatistics(Len(pg.projects)),
                        !.inserted = Some(pg.projects)]
    /\ UNCHANGED <<ug, hire, sg, tg, runs, wc, val, mn, ng>>

NextProject == GenerateProject \/ ProjectRaises \/ InsertProjects

(***************************************************************************)
(* StoryGenerator (times in seconds)                                       *)
(***************************************************************************)
\* fixed-point scale of the lifetime-fraction curve
CurveScale == 4 * 5

Pow3(x) == x * x * x
Pow5(x) == x * x * x * x * x

\* CurveScale * (num / den) ** 0.6, rounded down: the largest r with
\* (r / CurveScale)^5 <= (num / den)^3
Curve(num, den) ==
    CHOOSE r \in 0..CurveScale :
        /\ Pow5(r) * Pow3(den) <= Pow5(CurveScale) * Pow3(num)
        /\ \A q \in (r + 1)..CurveScale :
              Pow5(q) * Pow3(den) > Pow5(CurveScale) * Pow3(num)

\* the story types drawn in the model, two of STORY_TYPES
StoryTypeDraws == {"task_updated", "task_completed"}

\* random.randint(2, 8)
NumStoriesDraws == {2, 5, 8}

\* random.randint(1, 3600)
PullBackDraws == {1, 3600}

\* random.random() < 0.70, in per mille
ActorRandDraws == {699, 700}

StoryNow == 100000

\* end_time of a task
EndTime(task, now) ==
    IF task.completed_at # None THEN task.completed_at[1] ELSE now

\* total_duration, at least one hour
TotalDuration(task, now) ==
    LET d == EndTime(task, now) - task.created_at
    IN  IF d <= 0 THEN 3600 ELSE d

\* task_created + total_duration * (progress ** 0.6), i counted from 0
CurveTime(task, now, i, remaining) ==
    task.created_at
      + (TotalDuration(task, now) * Curve(i + 1, remaining)) \div CurveScale

\* the time of a story: pulled back behind now when the curve time is later
StoryTime(task, now, i, remaining, back) ==
    LET t == CurveTime(task, now, i, remaining)
    IN  IF t > now THEN now - back ELSE t

\* randint(1, 3600) is drawn only when the curve time lies after now
PullBacks(task, now, i, remaining) ==
    IF CurveTime(task, now, i, remaining) > now THEN PullBackDraws ELSE {1}

\* an actor taken from the assignee field whether it is set or not
pick_actor_unchecked(task, rand, user_id) ==
    IF rand < 700 THEN task.assignee_id ELSE user_id

\* the actor of a story: the assignee (70%) or random.choice(self.users)
pick_actor(task, rand, user_id) ==
    IF task.assignee_id # NoId /\ rand < 700 THEN task.assignee_id
    ELSE user_id

creation_story(story_id, task) ==
    [story_id |-> story_id, task_id |-> task.task_id,
     actor_id |-> task.creator_id, story_type |-> "task_created",
     created_at |-> task.created_at]

completion_story(story_id, task) ==
    [story_id |-> story_id, task_id |-> task.task_id,
     actor_id |-> IF task.assignee_id # NoId THEN task.assignee_id
                  ELSE task.creator_id,
     story_type |-> "task_completed",
     created_at |-> task.completed_at[1]]

\* the list _generate_task_stories returns once its loop is over
finish_task_stories(story_id, task, stories) ==
    IF task.completed_at # None
       /\ stories[Len(stories)].story_type # "task_completed"
    THEN [stories EXCEPT ![Len(stories)] = completion_story(story_id, task)]
    ELSE stories

\* the task pools handed to the generator
TaskDone ==
    [task_id |-> TaskId(1), creator_id |-> UserId(3),
     assignee_id |-> UserId(2),
     created_at |-> StoryNow - 7200, completed_at |-> Some(StoryNow - 3600)]
TaskOpen ==
    [task_id |-> TaskId(2), creator_id |-> UserId(1),
     assignee_id |-> NoId,
     created_at |-> StoryNow - 7200, completed_at |-> None]
TaskFuture ==
    [task_id |-> TaskId(3), creator_id |-> UserId(1),
     assignee_id |-> NoId,
     created_at |-> StoryNow - 3600, completed_at |-> Some(StoryNow + 3600)]
TaskZero ==
    [task_id |-> TaskId(4), creator_id |-> UserId(3),
     assignee_id |-> UserId(2),
     created_at |-> StoryNow - 7200, completed_at |-> Some(StoryNow - 7200)]

TaskPools ==
    { <<>>, <<TaskDone>>, <<TaskDone, TaskOpen>>, <<TaskFuture, TaskDone>>,
      <<TaskZero, TaskOpen>> }

StoryUsers == <<UserId(1), UserId(4)>>

\* k positions drawn with replacement
SamplesWithReplacement(n, k) == [1..k -> 1..n]

\* random.sample(tasks, k): the sequences of k different positions
Samples(n, k) ==
    { q \in [1..k -> 1..n] : \A a, b \in 1..k : a # b => q[a] # q[b] }

StoryIdle == sg = [pc |-> "idle"]

\* StoryGenerator.__init__ and the first lines of generate
StoryStart ==
    \E pool \in TaskPools, t \in 0..MaxStoryTarget :
        sg = [pc |-> "sample", tasks |-> pool, users |-> StoryUsers,
              target_count |-> t, now |-> StoryNow, order |-> <<>>,
              k |-> 0, stories |-> <<>>, task_stories |-> <<>>,
              remaining |-> 0, i |-> 0, minted |-> 0, inserted |-> None]

\* tasks_to_process and random.sample(self.tasks, tasks_to_process)
SampleTasks ==
    /\ sg.pc = "sample"
    /\ \E q \in Samples(Len(sg.tasks),
                        Min(Len(sg.tasks), sg.target_count \div 3)) :
        sg' = [sg EXCEPT !.pc = "loop", !.order = q]
    /\ UNCHANGED <<ug, hire, pg, tg, runs, wc, val, mn, ng>>

\* an iteration of the loop of generate up to the creation story of
\* _generate_task_stories
BeginTask ==
    /\ sg.pc = "loop"
    /\ sg.k < Len(sg.order)
    /\ Len(sg.stories) < sg.target_count
    /\ \E num \in NumStoriesDraws :
        LET num_stories == Min(num, sg.target_count - Len(sg.stories))
            task == sg.tasks[sg.order[sg.k + 1]]
        IN  sg' = [sg EXCEPT
                     !.pc = "task",
                     !.task_stories =
                         <<creation_story(StoryId(sg.minted + 1), task)>>,
                     !.minted = @ + 1,
                     !.remaining = num_stories - 1,
                     !.i = 0]
    /\ UNCHANGED <<ug, hire, pg, tg, runs, wc, val, mn, ng>>

\* one iteration of the loop of _generate_task_stories
AddStory ==
    /\ sg.pc = "task"
    /\ sg.i < sg.remaining
    /\ LET task == sg.tasks[sg.order[sg.k + 1]]
       IN  \E back \in PullBacks(task, sg.now, sg.i, sg.remaining),
              type \in StoryTypeDraws, rand \in ActorRandDraws,
              u \in 1..Len(sg.users) :
            sg' = [sg EXCEPT
                     !.task_stories = Append(@,
                         [story_id |-> StoryId(sg.minted + 1),
                          task_id |-> task.task_id,
                          actor_id |-> pick_actor(task, rand, sg.users[u]),
                          story_type |-> type,
                          created_at |-> StoryTime(task, sg.now, sg.i,
                                                   sg.remaining, back)]),
                     !.minted = @ + 1,
                     !.i = @ + 1]
    /\ UNCHANGED <<ug, hire, pg, tg, runs, wc, val, mn, ng>>

\* the end of _generate_task_stories (the early return when no story is
\* left to generate, else the forced completion story) and
\* stories.extend(task_stories)
EndTask ==
    /\ sg.pc = "task"
    /\ sg.i >= sg.remaining
    /\ LET task == sg.tasks[sg.order[sg.k + 1]]
           replaced == sg.remaining > 0
                       /\ finish_task_stories(StoryId(sg.minted + 1),
                              task, sg.task_stories) # sg.task_stories
           result == IF sg.remaining <= 0 THEN sg.task_stories
                     ELSE finish_task_stories(StoryId(sg.minted + 1),
                              task, sg.task_stories)
       IN  sg' = [sg EXCEPT
                    !.pc = "loop",
                    !.stories = @ \o result,
                    !.task_stories = <<>>,
                    !.minted = IF replaced THEN @ + 1 ELSE @,
                    !.k = @ + 1]
    /\ UNCHANGED <<ug, hire, pg, tg, runs, wc, val, mn, ng>>

\* end of generate: the loop is over or left by break;
\* insert_many('stories', stories) and return
InsertStories ==
    /\ sg.pc = "loop"
    /\ sg.k >= Len(sg.order) \/ Len(sg.stories) >= sg.target_count
    /\ sg' = [sg EXCEPT !.pc = "done", !.inserted = Some(sg.stories)]
    /\ UNCHANGED <<ug, hire, pg, tg, runs, wc, val, mn, ng>>

NextStory == SampleTasks \/ BeginTask \/ AddStory \/ EndTask \/ InsertStories

(***************************************************************************)
(* TeamGenerator (times in hours)                                          *)
(***************************************************************************)
\* DEPARTMENT_TEAMS: the departments in table order, each with the number
\* of team names listed for it
DEPARTMENTS ==
    <<"Engineering", "Product", "Design", "Marketing", "Sales",
      "Operations", "Data", "HR", "Finance", "Legal">>

TeamNameCount ==
    [dept \in {DEPARTMENTS[k] : k \in 1..Len(DEPARTMENTS)} |->
        CASE dept = "Engineering" -> 7
          [] dept \in {"Product", "Sales", "Data"} -> 3
          [] dept = "Marketing" -> 4
          [] dept \in {"Design", "Operations"} -> 2
          [] OTHER -> 1]

TEAM_TYPES == {"department", "project", "cross_functional", "working_group"}

\* self.users_by_dept[department]: the users of a department in pool order
UsersOfDept(users, dept) ==
    LET InDept(u) == u.department = dept
    IN  SelectSeq(users, InDept)

\* num_teams of a department that has users
NumTeams(users, dept) ==
    Min(TeamNameCount[dept], Max(1, Len(UsersOfDept(users, dept)) \div 8))

RECURSIVE DeptSlotsFrom(_, _)
\* the (department, i) pairs the nested loops of _generate_department_teams
\* visit, in order
DeptSlotsFrom(users, d) ==
    IF d > Len(DEPARTMENTS) THEN <<>>
    ELSE LET dept == DEPARTMENTS[d]
         IN  (IF UsersOfDept(users, dept) = <<>> THEN <<>>
              ELSE [i \in 1..NumTeams(users, dept) |->
                       [department |-> dept, i |-> i - 1]])
             \o DeptSlotsFrom(users, d + 1)

DeptSlots(users) == DeptSlotsFrom(users, 1)

\* random.randint(5, 15) and random.randint(3, 12)
DeptSizeDrawsWide == {5, 16}
DeptSizeDraws == {5, 15}
FillSizeDraws == {3, 12}

\* positions drawn with replacement: the first one, k times
SamplePicksRepeated(n, k) == { [j \in 1..k |-> 1] }

\* random.sample(pool, k) as the positions taken from a pool of n, in the
\* order drawn: the first k going up, the last k going down
SamplePicks(n, k) ==
    { [j \in 1..k |-> j], [j \in 1..k |-> n + 1 - j] }

\* the records a sample takes from a pool
Pick(pool, q) == [j \in 1..Len(q) |-> pool[q[j]]]

\* team_lead = admins[0] if admins else team_members[0]
team_lead(team_members) ==
    LET IsAdmin(u) == u.role = "admin"
        admins == SelectSeq(team_members, IsAdmin)
    IN  IF admins # <<>> THEN admins[1] ELSE team_members[1]

\* _get_team_creation_date: first (70%) the first half of the lifetime of
\* the organization, else the second half; at_end picks the end of the
\* uniform range instead of its start
get_team_creation_date(org_created, now, first, at_end) ==
    LET total_days == (now - org_created) \div HoursPerDay
        half == Days(total_days) \div 2
    IN  org_created
        + (IF first THEN (IF at_end THEN half ELSE 0)
           ELSE (IF at_end THEN Days(total_days) ELSE half))

Ids(team_members) == [j \in 1..Len(team_members) |-> team_members[j].user_id]

\* the team record of _generate_department_teams with its '_members'
department_team(team_id, slot, team_members, created_at, eligible) ==
    [team_id |-> team_id, name |-> <<slot.department, slot.i>>,
     team_type |-> "department",
     owner_id |-> team_lead(team_members).user_id,
     created_at |-> created_at, is_archived |-> FALSE,
     member_count |-> Len(team_members),
     _members |-> Ids(team_members), eligible |-> eligible]

\* the name suffix _generate_additional_teams gives a team type
FillName(team_type) ==
    IF team_type = "project" THEN "Project"
    ELSE IF team_type = "cross_functional" THEN "Initiative"
    ELSE "Working Group"

\* the team record of _generate_additional_teams with its '_members'
additional_team(team_id, team_type, team_members, owner, created_at, is_archived, eligible) ==
    [team_id |-> team_id, name |-> <<FillName(team_type), 0>>,
     team_type |-> team_type, owner_id |-> owner.user_id,
     created_at |-> created_at, is_archived |-> is_archived,
     member_count |-> Len(team_members),
     _members |-> Ids(team_members), eligible |-> eligible]

\* what the list of teams keeps of a record in the model: its identifier,
\* name and type, and whether it carries the '_members' field (the record
\* appended to the list is the one '_members' is then stored into)
Listed(team) ==
    [team_id |-> team.team_id, name |-> team.name,
     team_type |-> team.team_type,
     has_members |-> "_members" \in DOMAIN team]

User(k, department, role) ==
    [user_id |-> UserId(k), department |-> department, role |-> role]

\* sixteen engineers, two of them admins, and one product manager
LargePool ==
    [k \in 1..17 |->
        IF k = 17 THEN User(k, "Product", "member")
        ELSE User(k, "Engineering",
                  IF k \in {3, 12} THEN "admin" ELSE "member")]

TeamUserPools ==
    { <<>>,
      <<User(1, "HR", "member")>>,
      <<User(1, "Engineering", "member"), User(2, "Engineering", "admin"),
        User(3, "Engineering", "member"), User(4, "Engineering", "admin")>>,
      LargePool }

TeamId(k) == <<"team", k>>

NoTeam == [team_id |-> NoId]

TeamIdle == tg = [pc |-> "idle"]

\* TeamGenerator.__init__ and the first lines of generate
TeamStart ==
    \E pool \in TeamUserPools, t \in 0..MaxTeams :
        tg = [pc |-> "department", users |-> pool, target_count |-> t,
              org_created |-> 0, now |-> Days(720) + 5, teams |-> <<>>,
              team |-> NoTeam, remaining |-> 0, inserted |-> None]

\* one iteration of the inner loop of _generate_department_teams
DepartmentTeam ==
    /\ tg.pc = "department"
    /\ Len(tg.teams) < Len(DeptSlots(tg.users))
    /\ LET slot == DeptSlots(tg.users)[Len(tg.teams) + 1]
           dept_users == UsersOfDept(tg.users, slot.department)
       IN  \E size \in DeptSizeDraws, first \in BOOLEAN, at_end \in BOOLEAN :
             \E q \in SamplePicks(Len(dept_users),
                                  Min(Len(dept_users), size)) :
               LET team == department_team(TeamId(Len(tg.teams) + 1), slot,
                               Pick(dept_users, q),
                               get_team_creation_date(tg.org_created,
                                   tg.now, first, at_end),
                               Len(dept_users))
               IN  tg' = [tg EXCEPT !.teams = Append(@, Listed(team)),
                                    !.team = team]
    /\ UNCHANGED <<ug, hire, pg, sg, runs, wc, val, mn, ng>>

\* generate after _generate_department_teams: remaining
DepartmentsDone ==
    /\ tg.pc = "department"
    /\ Len(tg.teams) = Len(DeptSlots(tg.users))
    /\ tg' = [tg EXCEPT !.pc = "additional",
                        !.remaining = Max(0, tg.target_count - Len(tg.teams))]
    /\ UNCHANGED <<ug, hire, pg, sg, runs, wc, val, mn, ng>>

\* one iteration of the loop of _generate_additional_teams
AdditionalTeam ==
    /\ tg.pc = "additional"
    /\ tg.remaining > 0
    /\ tg.users # <<>>
    /\ \E type \in TEAM_TYPES, size \in FillSizeDraws, last \in BOOLEAN,
          first \in BOOLEAN, at_end \in BOOLEAN, archived \in BOOLEAN :
         \E q \in SamplePicks(Len(tg.users), Min(size, Len(tg.users))) :
           LET team_members == Pick(tg.users, q)
               owner == team_members[IF last THEN Len(team_members) ELSE 1]
               team == additional_team(TeamId(Len(tg.teams) + 1), type,
                           team_members, owner,
                           get_team_creation_date(tg.org_created, tg.now,
                               first, at_end),
                           archived, Len(tg.users))
           IN  tg' = [tg EXCEPT !.teams = Append(@, Listed(team)),
                                !.team = team,
                                !.remaining = @ - 1]
    /\ UNCHANGED <<ug, hire, pg, sg, runs, wc, val, mn, ng>>

\* random.choice(team_members) raises IndexError when the user pool is
\* empty
AdditionalRaises ==
    /\ tg.pc = "additional"
    /\ tg.remaining > 0
    /\ tg.users = <<>>
    /\ tg' = [tg EXCEPT !.pc = "raised"]
    /\ UNCHANGED <<ug, hire, pg, sg, runs, wc, val, mn, ng>>

\* a generate that writes the teams before trimming them
InsertTeamsUntrimmed ==
    /\ tg.pc = "additional"
    /\ tg.remaining = 0
    /\ tg' = [tg EXCEPT !.pc = AfterStatistics(Min(Len(tg.teams),
                                                   tg.target_count)),
                        !.teams = SubSeq(tg.teams, 1,
                                      Min(Len(tg.teams), tg.target_count)),
                        !.inserted = Some(tg.teams)]
    /\ UNCHANGED <<ug, hire, pg, sg, runs, wc, val, mn, ng>>

\* end of generate: teams[:target_count], insert_many('teams', teams),
\* _log_statistics and return
InsertTeams ==
    /\ tg.pc = "additional"
    /\ tg.remaining = 0
    /\ LET trimmed == SubSeq(tg.teams, 1, Min(Len(tg.teams), tg.target_count))
       IN  tg' = [tg EXCEPT !.pc = AfterStatistics(Len(trimmed)),
                            !.teams = trimmed,
                            !.inserted = Some(trimmed)]
    /\ UNCHANGED <<ug, hire, pg, sg, runs, wc, val, mn, ng>>

NextTeam ==
    \/ DepartmentTeam
    \/ DepartmentsDone
    \/ AdditionalTeam
    \/ AdditionalRaises
    \/ InsertTeams

(***************************************************************************)
(* Two runs of the generators with the same configuration                  *)
(* The random module is a stream of numbers that is a function of its      *)
(* state alone; it stands for the generator of the standard library.       *)
(* random.seed(42) sets the state; a fresh process starts the stream from  *)
(* a state taken from the operating system.  Faker has a stream of its     *)
(* own, set by Faker.seed(42).                                             *)
(***************************************************************************)
RANDOM_SEED == 42

RngModulus == 65536 + 1

\* the state of the stream after one more draw
NextRng(x) == (x * 75 + 74) % RngModulus

RECURSIVE Rng(_, _)
\* the k-th number drawn from a stream in state x
Rng(x, k) == IF k = 0 THEN x ELSE NextRng(Rng(x, k - 1))

\* random.randint(a, b) from a drawn number
RandInt(v, a, b) == a + (v % (b - a + 1))

\* random.random() in per mille
PerMille(v) == v % 1000

RECURSIVE CumulativePick(_, _, _, _)
CumulativePick(choices, r, k, acc) ==
    IF k >= Len(choices) \/ r < acc + choices[k][2] THEN choices[k][1]
    ELSE CumulativePick(choices, r, k + 1, acc + choices[k][2])

\* random.choices(values, weights=weights, k=1)[0] for r = random() in
\* per mille and weights in per mille
weighted_choice(choices, r) == CumulativePick(choices, r, 1, 0)

ROLE_DISTRIBUTION ==
    << <<"member", 850>>, <<"admin", 120>>, <<"guest", 20>>,
       <<"limited_access", 10>> >>

PRIORITIES ==
    << <<"low", 200>>, <<"medium", 450>>, <<"high", 250>>,
       <<"critical", 100>> >>

COMPANY_EXAMPLES ==
    << [name |-> "DataFlow Analytics", industry |-> "Analytics",
        domain |-> "dataflow.io"],
       [name |-> "SecureStack", industry |-> "Security",
        domain |-> "securestack.com"],
       [name |-> "DevTools Pro", industry |-> "Developer Tools",
        domain |-> "devtools.pro"],
       [name |-> "CloudSync Platform", industry |-> "Infrastructure",
        domain |-> "cloudsync.io"],
       [name |-> "CollabSpace", industry |-> "Collaboration",
        domain |-> "collabspace.com"],
       [name |-> "APIverse", industry |-> "Developer Tools",
        domain |-> "apiverse.dev"],
       [name |-> "MetricsHub", industry |-> "Analytics",
        domain |-> "metricshub.io"],
       [name |-> "CodeGuard", industry |-> "Security",
        domain |-> "codeguard.io"],
       [name |-> "TeamFlow", industry |-> "Collaboration",
        domain |-> "teamflow.app"],
       [name |-> "InfraMesh", industry |-> "Infrastructure",
        domain |-> "inframesh.io"] >>

MIN_EMPLOYEES == 5000
MAX_EMPLOYEES == 10000

\* OrganizationGenerator.generate from a stream in state x; the three
\* draws are random.choice, random.gauss and random.randint(24, 36)
organization(org_id, x, now) ==
    LET company == COMPANY_EXAMPLES[RandInt(Rng(x, 1), 1, Len(COMPANY_EXAMPLES))]
        mean == (MIN_EMPLOYEES + MAX_EMPLOYEES) \div 2
        std_dev == (MAX_EMPLOYEES - MIN_EMPLOYEES) \div 6
        gauss == mean + RandInt(Rng(x, 2), -4 * std_dev, 4 * std_dev)
        months_ago == RandInt(Rng(x, 3), 24, 36)
    IN  [org_id |-> org_id, name |-> company.name,
         domain |-> company.domain, industry |-> company.industry,
         employee_count |-> Max(MIN_EMPLOYEES, Min(MAX_EMPLOYEES, gauss)),
         created_at |-> now - Days(months_ago * 30)]

\* the names of FakerNames in a fixed order
FakerNameList ==
    << << <<"J", "o">>, <<"L", "i">> >>,
       << <<"J", "o">>, <<"A", ".">>, <<"L", "i">> >>,
       << <<"C", "h", "e", "r">> >> >>

\* the uniform draw of _get_last_active_date in whole days
DaysAgoOf(rand, v) ==
    IF rand < 900 THEN RandInt(v, 0, 7)
    ELSE IF rand < 950 THEN RandInt(v, 8, 30)
    ELSE RandInt(v, 31, 180)

\* _generate_user for index 0 from the random stream in state x and the
\* Faker stream in state f: the draws are the role, the department, the
\* job title, the hiring date and the last-active date
first_user(user_id, org, target_count, now, x, f) ==
    LET name == FakerNameList[RandInt(Rng(f, 1), 1, Len(FakerNameList))]
        role == weighted_choice(ROLE_DISTRIBUTION, PerMille(Rng(x, 1)))
        created_at == get_hiring_date(0, target_count, org.created_at, now,
                          RandInt(Rng(x, 4), 0, 7), 0)
        days_ago == DaysAgoOf(PerMille(Rng(x, 5)), Rng(x, 6))
        last_active_at == get_last_active_date(created_at, now,
                              Days(days_ago), RandInt(Rng(x, 7), 1, 30))
    IN  [user_id |-> user_id, org_id |-> org.org_id, name |-> name,
         email |-> create_email(name, org.domain), role |-> role,
         created_at |-> created_at, last_active_at |-> last_active_at]

\* the draws of _generate_project from the random stream in state x
project_draws(x) ==
    LET status == weighted_choice(PROJECT_STATUSES, PerMille(Rng(x, 2)))
        duration_days == RandInt(Rng(x, 6), 14, 180)
    IN  [days_ago |-> RandInt(Rng(x, 1), 0, 540),
         status |-> status,
         priority |-> weighted_choice(PRIORITIES, PerMille(Rng(x, 3))),
         start_offset |-> RandInt(Rng(x, 5), 0, 14),
         duration_days |-> duration_days,
         initial |-> IF status = "active" THEN RandInt(Rng(x, 7), 5, 40)
                     ELSE IF status = "on_hold" THEN RandInt(Rng(x, 7), 10, 50)
                     ELSE 0,
         progress |-> IF status = "active" THEN RandInt(Rng(x, 8), 5, 90)
                      ELSE IF status = "on_hold" THEN RandInt(Rng(x, 8), 10, 60)
                      ELSE 0,
         done_after |-> IF status = "completed"
                        THEN RandInt(Rng(x, 7), SixTenths(duration_days),
                                     duration_days)
                        ELSE 0]

\* the clock readings at which a run starts, in hours
RunClocks == {Days(2000), Days(2000) + 1}

RunsIdle == runs = <<>>

\* two processes about to call main: the random streams are in a state
\* taken from the operating system, the uuid4 values are theirs alone
RunsStart ==
    \E e1, e2 \in 1..EntropySeeds, f1, f2 \in 1..EntropySeeds,
       c1, c2 \in RunClocks :
        runs = << [pc |-> "start", rng |-> e1, faker |-> f1, now |-> c1,
                   uuid |-> 1, org |-> None, user |-> None, project |-> None],
                  [pc |-> "start", rng |-> e2, faker |-> f2, now |-> c2,
                   uuid |-> 2, org |-> None, user |-> None, project |-> None] >>

\* OrganizationGenerator(...).generate(): __init__ does not seed
OrganizationRun(r) ==
    /\ runs # <<>>
    /\ runs[r].pc = "start"
    /\ runs' = [runs EXCEPT
                  ![r].pc = "organization",
                  ![r].org = Some(organization(<<"org", runs[r].uuid>>,
                                      runs[r].rng, runs[r].now)),
                  ![r].rng = Rng(runs[r].rng, 3)]
    /\ UNCHANGED <<ug, hire, pg, sg, tg, wc, val, mn, ng>>

\* UserGenerator(...): Faker.seed(42), random.seed(42); generate: the first
\* user
UserRun(r) ==
    /\ runs # <<>>
    /\ runs[r].pc = "organization"
    /\ LET org == runs[r].org[1]
       IN  runs' = [runs EXCEPT
                      ![r].pc = "users",
                      ![r].user = Some(first_user(<<"user", runs[r].uuid>>,
                                          org, org.employee_count,
                                          runs[r].now, RANDOM_SEED,
                                          RANDOM_SEED)),
                      ![r].rng = Rng(RANDOM_SEED, 7),
                      ![r].faker = Rng(RANDOM_SEED, 1)]
    /\ UNCHANGED <<ug, hire, pg, sg, tg, wc, val, mn, ng>>

\* ProjectGenerator(...): Faker.seed(42), random.seed(42); generate: the
\* first project, owned by the first user
ProjectRun(r) ==
    /\ runs # <<>>
    /\ runs[r].pc = "users"
    /\ runs' = [runs EXCEPT
                  ![r].pc = "done",
                  ![r].project = Some(generate_project(
                                     <<"project", runs[r].uuid>>,
                                     runs[r].org[1].org_id,
                                     runs[r].user[1].user_id, runs[r].now,
                                     project_draws(RANDOM_SEED))),
                  ![r].rng = Rng(RANDOM_SEED, 8),
                  ![r].faker = Rng(RANDOM_SEED, 2)]
    /\ UNCHANGED <<ug, hire, pg, sg, tg, wc, val, mn, ng>>

NextRuns ==
    \E r \in 1..2 : OrganizationRun(r) \/ UserRun(r) \/ ProjectRun(r)

(***************************************************************************)
(* Weighted categorical selection                                          *)
(* A call either returns a value (None included) or raises an exception.   *)
(***************************************************************************)
Returned(value) == [kind |-> "returned", value |-> value, error |-> ""]
Raised(error) == [kind |-> "raised", value |-> None, error |-> error]

\* helpers.weighted_choice: 'if not choices: return None'
helpers_weighted_choice(choices, r) ==
    IF choices = <<>> THEN Returned(None)
    ELSE Returned(Some(weighted_choice(choices, r)))

\* the _weighted_choice of UserGenerator, ProjectGenerator, TeamGenerator
\* and StoryGenerator: 'values, weights = zip(*choices)' unpacks an empty
\* zip into two names, which raises ValueError
generator_weighted_choice(choices, r) ==
    IF choices = <<>> THEN Raised("ValueError")
    ELSE Returned(Some(weighted_choice(choices, r)))

\* NameGenerator._weighted_choice: 'if not choices: return None'
names_weighted_choice(choices, r) ==
    IF choices = <<>> THEN Returned(None)
    ELSE Returned(Some(weighted_choice(choices, r)))

\* the (value, weight) lists of the calls, the empty list among them
ChoiceInputs ==
    { <<>>, ROLE_DISTRIBUTION, PRIORITIES, PROJECT_STATUSES,
      << <<"Engineering", 1000>> >>,
      << <<"never", 0>>, <<"always", 1000>> >> }

\* random.random() in per mille
ChoiceDraws == {0, 199, 200, 649, 650, 849, 850, 999}

ChoiceIdle == wc = [pc |-> "idle"]

ChoiceStart ==
    \E choices \in ChoiceInputs, r \in ChoiceDraws :
        wc = [pc |-> "ready", choices |-> choices, r |-> r,
              callee |-> "none", outcome |-> Returned(None)]

HelperChoice ==
    /\ wc.pc = "ready"
    /\ wc' = [wc EXCEPT !.pc = "called", !.callee = "helpers",
                        !.outcome = helpers_weighted_choice(wc.choices, wc.r)]
    /\ UNCHANGED <<ug, hire, pg, sg, tg, runs, val, mn, ng>>

GeneratorChoice ==
    /\ wc.pc = "ready"
    /\ wc' = [wc EXCEPT !.pc = "called", !.callee = "generator",
                        !.outcome = generator_weighted_choice(wc.choices, wc.r)]
    /\ UNCHANGED <<ug, hire, pg, sg, tg, runs, val, mn, ng>>

NameChoice ==
    /\ wc.pc = "ready"
    /\ wc' = [wc EXCEPT !.pc = "called", !.callee = "names",
                        !.outcome = names_weighted_choice(wc.choices, wc.r)]
    /\ UNCHANGED <<ug, hire, pg, sg, tg, runs, val, mn, ng>>

NextChoice == HelperChoice \/ GeneratorChoice \/ NameChoice

(***************************************************************************)
(* run_validation_checks                                                   *)
(* The database is the content of the tables the queries read.  A task     *)
(* record stands for a number of equal rows of the tasks table.            *)
(***************************************************************************)
\* rows of the tasks table: the project and the assignee they name, the
\* completed flag with the two dates, and how many such rows there are
TaskRows ==
    { [project_id |-> p, assignee_id |-> a, completed |-> st # "open",
       created_at |-> 10,
       completed_at |-> IF st = "open" THEN None
                        ELSE IF st = "done" THEN Some(20) ELSE Some(5),
       rows |-> n]
      : p \in {ProjectId(1), ProjectId(2)},
        a \in {NoId, UserId(1), UserId(2)},
        st \in {"open", "done", "done_early"},
        n \in {1, 31} }

RECURSIVE TaskSets(_)
\* the sets of at most n kinds of task rows
TaskSets(n) ==
    IF n = 0 THEN {{}}
    ELSE {T \cup {t} : T \in TaskSets(n - 1), t \in TaskRows}
           \cup TaskSets(n - 1)

\* the database contents: the projects and users tables hold the first
\* project and user, with or without the second; at most MaxTaskGroups
\* kinds of task rows
Databases ==
    [ projects : {{ProjectId(1)}, {ProjectId(1), ProjectId(2)}},
      users : {{UserId(1)}, {UserId(1), UserId(2)}},
      tasks : TaskSets(MaxTaskGroups) ]

RECURSIVE RowCount(_)
\* SELECT COUNT(*) over a set of task rows
RowCount(T) ==
    IF T = {} THEN 0
    ELSE LET t == CHOOSE x \in T : TRUE
         IN  t.rows + RowCount(T \ {t})

\* check 1: tasks whose project_id is not in projects
orphaned(db) ==
    RowCount({t \in db.tasks : t.project_id \notin db.projects})

\* check 2: completed tasks with completed_at < created_at
temporal_violations(db) ==
    RowCount({t \in db.tasks :
                 t.completed /\ t.completed_at[1] < t.created_at})

\* check 3: tasks whose assignee_id is set and not in users
ref_violations(db) ==
    RowCount({t \in db.tasks :
                 t.assignee_id # NoId /\ t.assignee_id \notin db.users})

\* check 5: the task_count of an assignee among the active tasks
task_count(db, assignee_id) ==
    RowCount({t \in db.tasks :
                 ~t.completed /\ t.assignee_id = assignee_id})

\* check 5: MAX(task_count) over the assignees of active tasks, None when
\* there is none
max_tasks(db) ==
    LET groups == {t.assignee_id : t \in {x \in db.tasks :
                       ~x.completed /\ x.assignee_id # NoId}}
    IN  IF groups = {} THEN None
        ELSE Some(CHOOSE m \in {task_count(db, a) : a \in groups} :
                     \A a \in groups : task_count(db, a) <= m)

\* a check that overwrites the flag with its own outcome
record_check_last(passed, ok) == ok

\* 'if <count> == 0: ... else: passed = False'
record_check(passed, ok) == passed /\ ok

ValidationIdle == val = [pc |-> "idle"]

\* the first lines of run_validation_checks
ValidationStart ==
    \E db \in Databases :
        val = [pc |-> "check1", db |-> db, checks |-> <<>>, passed |-> TRUE,
               warned |-> FALSE, result |-> None, report |-> "",
               exit_code |-> None]

Check1 ==
    /\ val.pc = "check1"
    /\ val' = [val EXCEPT
                  !.pc = "check2",
                  !.passed = record_check(@, orphaned(val.db) = 0),
                  !.checks = Append(@, orphaned(val.db) = 0)]
    /\ UNCHANGED <<ug, hire, pg, sg, tg, runs, wc, mn, ng>>

Check2 ==
    /\ val.pc = "check2"
    /\ val' = [val EXCEPT
                  !.pc = "check3",
                  !.passed = record_check(@, temporal_violations(val.db) = 0),
                  !.checks = Append(@, temporal_violations(val.db) = 0)]
    /\ UNCHANGED <<ug, hire, pg, sg, tg, runs, wc, mn, ng>>

Check3 ==
    /\ val.pc = "check3"
    /\ val' = [val EXCEPT
                  !.pc = "check4",
                  !.passed = record_check(@, ref_violations(val.db) = 0),
                  !.checks = Append(@, ref_violations(val.db) = 0)]
    /\ UNCHANGED <<ug, hire, pg, sg, tg, runs, wc, mn, ng>>

\* check 4 logs the completion rates and appends True
Check4 ==
    /\ val.pc = "check4"
    /\ val' = [val EXCEPT !.pc = "check5", !.checks = Append(@, TRUE)]
    /\ UNCHANGED <<ug, hire, pg, sg, tg, runs, wc, mn, ng>>

\* check 5 warns when some user has more than 30 active tasks and appends
\* True
Check5 ==
    /\ val.pc = "check5"
    /\ val' = [val EXCEPT
                  !.pc = "checked",
                  !.warned = max_tasks(val.db) # None
                             /\ max_tasks(val.db)[1] > 30,
                  !.checks = Append(@, TRUE)]
    /\ UNCHANGED <<ug, hire, pg, sg, tg, runs, wc, mn, ng>>

\* failed_count and the returned dictionary
ReturnValidation ==
    /\ val.pc = "checked"
    /\ val' = [val EXCEPT
                  !.pc = "returned",
                  !.result = Some(
                      [passed |-> val.passed,
                       failed_count |->
                           Cardinality({k \in 1..Len(val.checks) :
                                           ~val.checks[k]}),
                       checks |-> val.checks])]
    /\ UNCHANGED <<ug, hire, pg, sg, tg, runs, wc, mn, ng>>

\* a main that turns a failed validation into exit code 1
after_validation_strict(result) ==
    [report |-> IF result.passed THEN "info" ELSE "warning",
     exit_code |-> IF result.passed THEN 0 ELSE 1]

\* main after run_validation_checks: the result is logged, as information
\* when it passed and as a warning otherwise, and main returns, which ends
\* the process with exit code 0
after_validation(result) ==
    [report |-> IF result.passed THEN "info" ELSE "warning",
     exit_code |-> 0]

\* main from the return of run_validation_checks to its end
ReportValidation ==
    /\ val.pc = "returned"
    /\ val' = [val EXCEPT
                  !.pc = "complete",
                  !.report = after_validation(val.result[1]).report,
                  !.exit_code =
                      Some(after_validation(val.result[1]).exit_code)]
    /\ UNCHANGED <<ug, hire, pg, sg, tg, runs, wc, mn, ng>>

NextValidation ==
    \/ Check1 \/ Check2 \/ Check3 \/ Check4 \/ Check5
    \/ ReturnValidation
    \/ ReportValidation

(***************************************************************************)
(* main                                                                    *)
(* A stage is one numbered block of main: the construction of a generator  *)
(* and the call of its generate (or, for the memberships, the call of      *)
(* assign_members).  A call that does not fit the signature of the class   *)
(* it names raises TypeError, a method the class does not have raises      *)
(* AttributeError; 'except Exception' then ends the run with exit code 1.  *)
(***************************************************************************)
\* the names under which main hands the entity pools on
POOLS == {"org_data", "teams", "users", "projects", "tasks"}

\* the __init__ parameters after self and how many of them have no default
OrganizationGenerator_init ==
    [params |-> <<"db_manager", "min_employees", "max_employees">>,
     required |-> 1, defined |-> TRUE]
TeamGenerator_init ==
    [params |-> <<"db_manager", "org_data", "users", "target_count">>,
     required |-> 4, defined |-> TRUE]
UserGenerator_init ==
    [params |-> <<"db_manager", "org_data", "target_count">>,
     required |-> 3, defined |-> TRUE]
ProjectGenerator_init ==
    [params |-> <<"db_manager", "org_data", "users", "target_count">>,
     required |-> 4, defined |-> TRUE]
StoryGenerator_init ==
    [params |-> <<"db_manager", "org_data", "tasks", "users",
                  "target_count">>,
     required |-> 5, defined |-> TRUE]

\* TeamGenerator has no method assign_members
TeamGenerator_assign_members ==
    [params |-> <<>>, required |-> 0, defined |-> FALSE]

\* the stage that swaps the teams and the users block
STAGES_users_first ==
    << [name |-> "Organization", callee |-> "OrganizationGenerator",
        args |-> <<"db_manager", "MIN_EMPLOYEES", "MAX_EMPLOYEES">>,
        keywords |-> {}, produces |-> "org_data"],
       [name |-> "Users", callee |-> "UserGenerator",
        args |-> <<"db_manager", "org_data", "employee_count">>,
        keywords |-> {}, produces |-> "users"],
       [name |-> "Teams", callee |-> "TeamGenerator",
        args |-> <<"db_manager", "org_data">>,
        keywords |-> {}, produces |-> "teams"] >>

\* the numbered blocks of main in program order: the call each makes and
\* the name its result is bound to
STAGES ==
    << [name |-> "Organization", callee |-> "OrganizationGenerator",
        args |-> <<"db_manager", "MIN_EMPLOYEES", "MAX_EMPLOYEES">>,
        keywords |-> {}, produces |-> "org_data"],
       [name |-> "Teams", callee |-> "TeamGenerator",
        args |-> <<"db_manager", "org_data">>,
        keywords |-> {}, produces |-> "teams"],
       [name |-> "Users", callee |-> "UserGenerator",
        args |-> <<"db_manager", "org_data", "employee_count">>,
        keywords |-> {}, produces |-> "users"],
       [name |-> "Memberships", callee |-> "TeamGenerator.assign_members",
        args |-> <<"users">>,
        keywords |-> {}, produces |-> "memberships"],
       [name |-> "Projects", callee |-> "ProjectGenerator",
        args |-> <<"db_manager", "org_data", "teams", "users">>,
        keywords |-> {"projects_per_team", "months_of_history"},
        produces |-> "projects"],
       [name |-> "Tasks", callee |-> "TaskGenerator",
        args |-> <<"db_manager", "projects", "users">>,
        keywords |-> {"tasks_per_user", "api_key"}, produces |-> "tasks"],
       [name |-> "CustomFields", callee |-> "CustomFieldGenerator",
        args |-> <<"db_manager", "projects", "tasks">>,
        keywords |-> {}, produces |-> "custom_fields"],
       [name |-> "Comments", callee |-> "CommentGenerator",
        args |-> <<"db_manager", "tasks", "users">>,
        keywords |-> {"api_key"}, produces |-> "comments"],
       [name |-> "Stories", callee |-> "StoryGenerator",
        args |-> <<"db_manager", "tasks", "projects", "users">>,
        keywords |-> {}, produces |-> "stories"] >>

\* the signature a call of main meets: that of the class of this name in
\* the generators package; the generators of tasks, custom fields and
\* comments take what main passes them
Signature(stage) ==
    CASE stage.callee = "OrganizationGenerator" -> OrganizationGenerator_init
      [] stage.callee = "TeamGenerator" -> TeamGenerator_init
      [] stage.callee = "UserGenerator" -> UserGenerator_init
      [] stage.callee = "ProjectGenerator" -> ProjectGenerator_init
      [] stage.callee = "StoryGenerator" -> StoryGenerator_init
      [] stage.callee = "TeamGenerator.assign_members"
           -> TeamGenerator_assign_members
      [] OTHER -> [params |-> stage.args, required |-> Len(stage.args),
                   defined |-> TRUE]

\* Python's binding of the arguments of a call to the parameters: no more
\* positional arguments than parameters, every keyword names a parameter
\* not filled positionally, every parameter without default is filled
Binds(stage) ==
    LET sig == Signature(stage)
        n == Len(stage.args)
    IN  /\ sig.defined
        /\ n <= Len(sig.params)
        /\ stage.keywords \subseteq
              {sig.params[k] : k \in (n + 1)..Len(sig.params)}
        /\ \A k \in 1..sig.required :
              k <= n \/ sig.params[k] \in stage.keywords

\* the exception of a call that does not bind
CallError(stage) ==
    IF Signature(stage).defined THEN "TypeError" ELSE "AttributeError"

\* the entity pools the callee of a stage takes as parameters
Requires(stage) == {p \in POOLS :
    \E k \in 1..Len(Signature(stage).params) : Signature(stage).params[k] = p}

MainClock == Days(2000)

MainIdle == mn = [pc |-> "idle"]

\* main before validate_config
\* the issues validate_config collects, in the order it appends them
ConfigIssues(api_key, schema_exists) ==
    (IF api_key THEN <<>> ELSE <<"ANTHROPIC_API_KEY not found">>)
      \o (IF schema_exists THEN <<>> ELSE <<"Schema file not found">>)

\* a validate_config that looks at the first issue only
validate_config_first_issue(api_key, schema_exists) ==
    LET issues == ConfigIssues(api_key, schema_exists)
    IN  [exits |-> issues # <<>> /\ issues[1] = "Schema file not found",
         warnings |-> IF api_key THEN 0 ELSE 2]

\* validate_config: the API key issue is warned about when it is found and
\* again in the loop over the issues; the schema issue is an error followed
\* by sys.exit(1)
validate_config(api_key, schema_exists) ==
    LET issues == ConfigIssues(api_key, schema_exists)
    IN  [exits |-> \E k \in 1..Len(issues) :
                      issues[k] = "Schema file not found",
         warnings |-> IF api_key THEN 0 ELSE 2]

\* an exception handler that logs the error and lets main go on
on_exception_continue(m, error) ==
    [m EXCEPT !.pc = "run", !.error = error]

\* 'except Exception as e': logger.error and sys.exit(1)
on_exception(m, error) ==
    [m EXCEPT !.pc = "exit", !.error = error, !.exit_code = Some(1)]

\* main before validate_config, in an environment with or without the API
\* key and the schema file
MainStart ==
    \E api_key \in BOOLEAN, schema_exists \in BOOLEAN :
        mn = [pc |-> "start", api_key |-> api_key,
              schema_exists |-> schema_exists, warnings |-> 0,
              db_initialized |-> FALSE, stage |-> 0, started |-> <<>>,
              returned |-> <<>>, pools |-> {}, org |-> None, error |-> "",
              exit_code |-> None]

\* validate_config: a missing schema file ends the process with exit
\* code 1 (SystemExit is not caught by 'except Exception')
ValidateConfig ==
    /\ mn.pc = "start"
    /\ LET config == validate_config(mn.api_key, mn.schema_exists)
       IN  mn' = IF config.exits
                 THEN [mn EXCEPT !.pc = "exit", !.exit_code = Some(1),
                                 !.warnings = config.warnings]
                 ELSE [mn EXCEPT !.pc = "database",
                                 !.warnings = config.warnings]
    /\ UNCHANGED <<ug, hire, pg, sg, tg, runs, wc, val, ng>>

\* DatabaseManager(...).initialize()
InitializeDatabase ==
    /\ mn.pc = "database"
    /\ mn' = [mn EXCEPT !.pc = "run", !.db_initialized = TRUE]
    /\ UNCHANGED <<ug, hire, pg, sg, tg, runs, wc, val, ng>>

\* main enters its next numbered block
StartStage ==
    /\ mn.pc = "run"
    /\ mn.stage < Len(STAGES)
    /\ mn' = [mn EXCEPT !.pc = "stage", !.stage = @ + 1,
                        !.started = Append(@, STAGES[mn.stage + 1].name)]
    /\ UNCHANGED <<ug, hire, pg, sg, tg, runs, wc, val, ng>>

\* the generator is constructed, its generate returns and main binds the
\* result; the organization is the one OrganizationGenerator draws
StageReturns ==
    /\ mn.pc = "stage"
    /\ Binds(STAGES[mn.stage])
    /\ \E x \in 1..MaxMainSeeds :
         mn' = [mn EXCEPT
                  !.pc = "run",
                  !.returned = Append(@, STAGES[mn.stage].name),
                  !.pools = @ \cup {STAGES[mn.stage].produces},
                  !.org = IF STAGES[mn.stage].name = "Organization"
                          THEN Some(organization(<<"org", 1>>, x, MainClock))
                          ELSE @]
    /\ UNCHANGED <<ug, hire, pg, sg, tg, runs, wc, val, ng>>

\* the call of the block does not bind: the exception reaches
\* 'except Exception' and sys.exit(1)
StageRaises ==
    /\ mn.pc = "stage"
    /\ ~Binds(STAGES[mn.stage])
    /\ mn' = on_exception(mn, CallError(STAGES[mn.stage]))
    /\ UNCHANGED <<ug, hire, pg, sg, tg, runs, wc, val, ng>>

\* the generator is constructed and its generate raises (a write to the
\* store fails, a draw from an empty pool raises IndexError)
StageFails ==
    /\ mn.pc = "stage"
    /\ Binds(STAGES[mn.stage])
    /\ mn' = on_exception(mn, "Exception")
    /\ UNCHANGED <<ug, hire, pg, sg, tg, runs, wc, val, ng>>

NextMain ==
    \/ ValidateConfig
    \/ InitializeDatabase
    \/ StartStage
    \/ StageReturns
    \/ StageRaises
    \/ StageFails

(***************************************************************************)
(* NameGenerator.generate_email (utils/names.py)                           *)
(* An address is <<local part, domain>>, the local part a sequence of      *)
(* characters.                                                             *)
(***************************************************************************)
DigitChars == <<"0", "1", "2", "3", "4", "5", "6", "7", "8", "9">>

RECURSIVE Str(_)
\* str(counter)
Str(n) ==
    IF n < 10 THEN <<DigitChars[n + 1]>>
    ELSE Str(n \div 10) \o <<DigitChars[(n % 10) + 1]>>

\* the first and last name generate_email takes from a name, cleaned
EmailFirst(name) == CleanToken(LowerToken(name[1]))
EmailLast(name) ==
    IF Len(name) >= 2 THEN CleanToken(LowerToken(name[Len(name)]))
    ELSE <<"u", "s", "e", "r">>

\* name.split() is empty, or first[0] of an empty first name: IndexError
EmailRaises(name, format_style) ==
    \/ name = <<>>
    \/ format_style = "flast" /\ EmailFirst(name) = <<>>

\* email_local for a format style
email_local(name, format_style) ==
    LET first == EmailFirst(name)
        last == EmailLast(name)
    IN  IF format_style = "firstlast" THEN first \o last
        ELSE IF format_style = "flast" THEN <<first[1]>> \o last
        ELSE IF format_style = "first" THEN first
        ELSE first \o <<".">> \o last

\* the counter the while loop stops at
FreeCounter(local, domain, used_emails) ==
    CHOOSE c \in 1..(Cardinality(used_emails) + 1) :
        /\ <<local \o Str(c), domain>> \notin used_emails
        /\ \A b \in 1..(c - 1) : <<local \o Str(b), domain>> \in used_emails

\* an address built from the name alone, whatever was handed out before
generate_email_natural(name, domain, format_style, used_emails) ==
    <<email_local(name, format_style), domain>>

\* the address generate_email returns
generate_email(name, domain, format_style, used_emails) ==
    LET local == email_local(name, format_style)
    IN  IF <<local, domain>> \in used_emails
        THEN <<local \o Str(FreeCounter(local, domain, used_emails)), domain>>
        ELSE <<local, domain>>

\* the names handed to generate_email: "Jo Li", "Jo Li1", "Jo A. Li", "Jo"
\* and "."
EmailNames ==
    { << <<"J", "o">>, <<"L", "i">> >>,
      << <<"J", "o">>, <<"L", "i", "1">> >>,
      << <<"J", "o">>, <<"A", ".">>, <<"L", "i">> >>,
      << <<"J", "o">> >>,
      << <<".">> >> }

FORMAT_STYLES == {"first.last", "firstlast", "flast", "first", "initials"}

NamesIdle == ng = [pc |-> "idle"]

\* NameGenerator.__init__
NamesStart ==
    ng = [pc |-> "ready", used_emails |-> {}, returned |-> <<>>,
          calls |-> 0, error |-> ""]

\* a call of generate_email that returns an address
GenerateEmail ==
    /\ ng.pc = "ready"
    /\ ng.calls < MaxEmailCalls
    /\ \E name \in EmailNames, format_style \in FORMAT_STYLES :
        /\ ~EmailRaises(name, format_style)
        /\ LET email == generate_email(name, OrgDomain, format_style,
                                       ng.used_emails)
           IN  ng' = [ng EXCEPT !.used_emails = @ \cup {email},
                                !.returned = Append(@, email),
                                !.calls = @ + 1,
                                !.error = ""]
    /\ UNCHANGED <<ug, hire, pg, sg, tg, runs, wc, val, mn>>

\* a call of generate_email that raises: nothing is returned or recorded
GenerateEmailRaises ==
    /\ ng.pc = "ready"
    /\ ng.calls < MaxEmailCalls
    /\ \E name \in EmailNames, format_style \in FORMAT_STYLES :
        /\ EmailRaises(name, format_style)
        /\ ng' = [ng EXCEPT !.calls = @ + 1, !.error = "IndexError"]
    /\ UNCHANGED <<ug, hire, pg, sg, tg, runs, wc, val, mn>>

NextNames == GenerateEmail \/ GenerateEmailRaises

(***************************************************************************)
(* Specifications                                                          *)
(***************************************************************************)
InitUser ==
    UserStart /\ HireIdle /\ ProjectIdle /\ StoryIdle /\ TeamIdle /\ RunsIdle
      /\ ChoiceIdle /\ ValidationIdle /\ MainIdle /\ NamesIdle
SpecUser == InitUser /\ [][NextUser]_vars

InitHire ==
    HireStart /\ UserIdle /\ ProjectIdle /\ StoryIdle /\ TeamIdle /\ RunsIdle
      /\ ChoiceIdle /\ ValidationIdle /\ MainIdle /\ NamesIdle
SpecHire == InitHire /\ [][NextHire]_vars

InitProject ==
    ProjectStart /\ UserIdle /\ HireIdle /\ StoryIdle /\ TeamIdle /\ RunsIdle
      /\ ChoiceIdle /\ ValidationIdle /\ MainIdle /\ NamesIdle
SpecProject == InitProject /\ [][NextProject]_vars

InitStory ==
    StoryStart /\ UserIdle /\ HireIdle /\ ProjectIdle /\ TeamIdle /\ RunsIdle
      /\ ChoiceIdle /\ ValidationIdle /\ MainIdle /\ NamesIdle
SpecStory == InitStory /\ [][NextStory]_vars

InitTeam ==
    TeamStart /\ UserIdle /\ HireIdle /\ ProjectIdle /\ StoryIdle /\ RunsIdle
      /\ ChoiceIdle /\ ValidationIdle /\ MainIdle /\ NamesIdle
SpecTeam == InitTeam /\ [][NextTeam]_vars

InitRuns ==
    RunsStart /\ UserIdle /\ HireIdle /\ ProjectIdle /\ StoryIdle /\ TeamIdle
      /\ ChoiceIdle /\ ValidationIdle /\ MainIdle /\ NamesIdle
SpecRuns == InitRuns /\ [][NextRuns]_vars

InitChoice ==
    ChoiceStart /\ UserIdle /\ HireIdle /\ ProjectIdle /\ StoryIdle
      /\ TeamIdle /\ RunsIdle /\ ValidationIdle /\ MainIdle /\ NamesIdle
SpecChoice == InitChoice /\ [][NextChoice]_vars

InitValidation ==
    ValidationStart /\ UserIdle /\ HireIdle /\ ProjectIdle /\ StoryIdle
      /\ TeamIdle /\ RunsIdle /\ ChoiceIdle /\ MainIdle /\ NamesIdle
SpecValidation == InitValidation /\ [][NextValidation]_vars

InitMain ==
    MainStart /\ UserIdle /\ HireIdle /\ ProjectIdle /\ StoryIdle
      /\ TeamIdle /\ RunsIdle /\ ChoiceIdle /\ ValidationIdle /\ NamesIdle
SpecMain == InitMain /\ [][NextMain]_vars

InitNames ==
    NamesStart /\ UserIdle /\ HireIdle /\ ProjectIdle /\ StoryIdle
      /\ TeamIdle /\ RunsIdle /\ ChoiceIdle /\ ValidationIdle /\ MainIdle
SpecNames == InitNames /\ [][NextNames]_vars

\* a generate call of any one of the four entity generators
InitGenerate == InitUser \/ InitProject \/ InitStory \/ InitTeam
NextGenerate == NextUser \/ NextProject \/ NextStory \/ NextTeam
SpecGenerate == InitGenerate /\ [][NextGenerate]_vars

(***************************************************************************)
(* Properties of the generated users                                       *)
(***************************************************************************)
UserBuilt == ug.pc # "idle" /\ ug.user.index >= 0

InFoundingWindow(org_created, created_at) ==
    /\ created_at >= org_created
    /\ created_at <= org_created + Days(7)

\* C1: every generated user has created_at >= organization.created_at and
\* a last_active_at that is not before the user's created_at, also when the
\* sampled recency date fell before created_at and was replaced.
C1_UserDatesOrdered ==
    UserBuilt =>
        /\ ug.user.created_at >= ug.org_created
        /\ ug.user.last_active_at >= ug.user.created_at

\* a user hired on the growth curve whose sampled recency date was replaced:
\* only a replaced date can lie after now
C1_Witness ==
    /\ UserBuilt
    /\ ug.user.index >= FOUNDING_TEAM
    /\ ug.user.created_at > ug.org_created
    /\ ug.user.last_active_at > ug.now

\* C6: in a run of at least 50 users, every user with generation index
\* 0..49 has created_at within [organization.created_at, + 7 days].
C6_FoundingCohortPinned ==
    (UserBuilt /\ ug.target_count >= FOUNDING_TEAM
       /\ ug.user.index < FOUNDING_TEAM)
      => InFoundingWindow(ug.org_created, ug.user.created_at)

\* the last founder of a run that goes on past the founding cohort, hired
\* on the last day of the window
C6_Witness ==
    /\ UserBuilt
    /\ ug.target_count > FOUNDING_TEAM
    /\ ug.user.index = FOUNDING_TEAM - 1
    /\ ug.user.created_at = ug.org_created + Days(7)

\* C7: when 5000 users are generated for an organization created at T0
\* (here: at least 24 months ago), no user with index >= 50 has created_at
\* within [T0, T0 + 7 days], so that exactly the 50 founders do.
C7_OnlyFoundersInWindow ==
    (/\ hire.pc = "applied"
     /\ hire.target_count = ScaleTarget
     /\ hire.now - hire.org_created >= Days(720)
     /\ hire.index >= FOUNDING_TEAM)
      => ~InFoundingWindow(hire.org_created, hire.created_at)

\* C8: the users of one run have pairwise distinct e-mail addresses: as
\* many different addresses as users.
C8_EmailsDistinct ==
    ug.pc # "idle" => Cardinality(ug.emails) = ug.n

(***************************************************************************)
(* Properties of the generated projects                                    *)
(***************************************************************************)
ProjectBuilt == pg.pc # "idle" /\ pg.project.project_id # None

\* C2: every generated project has start_date >= created_at and
\* due_date >= start_date, and progress 100 when its status is completed
\* or archived.
C2_ProjectTimeline ==
    ProjectBuilt =>
        /\ pg.project.start_date >= pg.project.created_at
        /\ pg.project.due_date >= pg.project.start_date
        /\ (pg.project.status \in {"completed", "archived"}
              => pg.project.progress = 100)

\* a completed project that started 14 days after its creation
C2_Witness ==
    /\ ProjectBuilt
    /\ pg.project.status = "completed"
    /\ pg.project.progress = 100
    /\ pg.project.start_date = pg.project.created_at + Days(14)
    /\ pg.project.due_date = pg.project.start_date + Days(14)

(***************************************************************************)
(* Properties of the generated stories                                     *)
(***************************************************************************)
\* the positions in the accumulated list of the stories of a task
StoriesOf(task) ==
    {j \in 1..Len(sg.stories) : sg.stories[j].task_id = task.task_id}

\* some chronologically last story of the task is a completion story
LastIsCompletion(task) ==
    \E j \in StoriesOf(task) :
        /\ sg.stories[j].story_type = "task_completed"
        /\ \A h \in StoriesOf(task) :
              sg.stories[h].created_at <= sg.stories[j].created_at

\* C3: for every completed task for which stories were emitted (here: a
\* task completed after its creation and not after now), whatever number of
\* stories it was allotted, the story with the maximum created_at is a
\* completion story.
C3_LastStoryCompletes ==
    sg.pc # "idle" =>
        \A t \in 1..Len(sg.tasks) :
            LET task == sg.tasks[t]
            IN  (/\ task.completed_at # None
                 /\ task.completed_at[1] > task.created_at
                 /\ task.completed_at[1] <= sg.now
                 /\ StoriesOf(task) # {})
                  => LastIsCompletion(task)

\* every story built so far, returned or still in _generate_task_stories
AllStories ==
    {sg.stories[j] : j \in 1..Len(sg.stories)}
      \cup {sg.task_stories[j] : j \in 1..Len(sg.task_stories)}

TaskOf(story) ==
    CHOOSE t \in {sg.tasks[j] : j \in 1..Len(sg.tasks)} :
        t.task_id = story.task_id

MintedStoryIds == {StoryId(k) : k \in 1..sg.minted}

\* C4: every story carries the task_id of a task of the input pool and an
\* actor_id that is a user of the input pool or the creator or assignee of
\* its task; neither is an identifier minted by the story stage.
C4_StoryReferences ==
    sg.pc # "idle" =>
        \A s \in AllStories :
            /\ s.task_id \in {sg.tasks[j].task_id : j \in 1..Len(sg.tasks)}
            /\ s.actor_id # NoId
            /\ \/ s.actor_id \in {sg.users[j] : j \in 1..Len(sg.users)}
               \/ s.actor_id = TaskOf(s).creator_id
               \/ s.actor_id = TaskOf(s).assignee_id
            /\ s.task_id \notin MintedStoryIds
            /\ s.actor_id \notin MintedStoryIds

\* a finished run that returned a story by a creator outside the user
\* pool, a story by a pool user who is neither creator nor assignee of its
\* task, and a story by an assignee
C4_Witness ==
    /\ sg.pc = "done"
    /\ \E s \in AllStories :
          /\ s.actor_id = TaskOf(s).creator_id
          /\ s.actor_id \notin {sg.users[j] : j \in 1..Len(sg.users)}
    /\ \E s \in AllStories :
          /\ s.actor_id \in {sg.users[j] : j \in 1..Len(sg.users)}
          /\ s.actor_id # TaskOf(s).creator_id
          /\ s.actor_id # TaskOf(s).assignee_id
    /\ \E s \in AllStories :
          /\ s.story_type = "task_updated"
          /\ s.actor_id = TaskOf(s).assignee_id

(***************************************************************************)
(* Properties of two runs                                                  *)
(***************************************************************************)
\* a record without the freshly minted identifiers it carries
WithoutIds(rec) ==
    [k \in (DOMAIN rec) \ {"org_id", "user_id", "project_id", "owner_id"}
        |-> rec[k]]

\* C5: two full runs with the same configuration and the same fixed seed
\* (here: started at the same clock reading) produce the same values for
\* every field of the organization, the users and the projects, the
\* freshly minted identifiers apart.
C5_RunsReproducible ==
    (/\ runs # <<>>
     /\ runs[1].pc = "done" /\ runs[2].pc = "done"
     /\ runs[1].now = runs[2].now)
      => /\ WithoutIds(runs[1].org[1]) = WithoutIds(runs[2].org[1])
         /\ WithoutIds(runs[1].user[1]) = WithoutIds(runs[2].user[1])
         /\ WithoutIds(runs[1].project[1]) = WithoutIds(runs[2].project[1])

(***************************************************************************)
(* Properties of the generated teams                                       *)
(***************************************************************************)
TeamBuilt == tg.pc # "idle" /\ tg.team.team_id # NoId

Members(team) == {team._members[j] : j \in 1..Len(team._members)}

\* C9: the owner of every team, department team or fill team, is one of
\* the members sampled for it, and member_count is the number of these
\* members, who are pairwise distinct users.
C9_OwnerIsMember ==
    TeamBuilt =>
        /\ tg.team.owner_id \in Members(tg.team)
        /\ tg.team.member_count = Len(tg.team._members)
        /\ Cardinality(Members(tg.team)) = Len(tg.team._members)

\* a department team of 15 members led by an admin who was not drawn first
C9_Witness ==
    /\ TeamBuilt
    /\ tg.team.team_type = "department"
    /\ tg.team.member_count = 15
    /\ tg.team.owner_id # tg.team._members[1]

UserOf(user_id) ==
    CHOOSE u \in {tg.users[j] : j \in 1..Len(tg.users)} : u.user_id = user_id

\* C11: a team, department team or fill team, whose sampled members
\* include a user with role admin is owned by a member with role admin.
C11_AdminOwnsTeam ==
    TeamBuilt =>
        ((\E m \in Members(tg.team) : UserOf(m).role = "admin")
           => UserOf(tg.team.owner_id).role = "admin")

\* the teams built from the department/team-name table carry a department
\* as the first part of their name
FromDepartmentTable(team) ==
    team.name[1] \in {DEPARTMENTS[k] : k \in 1..Len(DEPARTMENTS)}

\* C12: no team record handed to insert_many('teams', ...) or returned by
\* generate carries the '_members' field.
C12_MembersNotExposed ==
    tg.pc = "done" =>
        /\ \A j \in 1..Len(tg.teams) : ~tg.teams[j].has_members
        /\ \A j \in 1..Len(tg.inserted[1]) : ~tg.inserted[1][j].has_members

\* C13: every team generated to fill the remaining target count has a
\* team_type among project, cross_functional and working_group; the type
\* department occurs only on teams built from the department table.
C13_FillTeamTypes ==
    (TeamBuilt /\ ~FromDepartmentTable(tg.team))
      => tg.team.team_type \in {"project", "cross_functional", "working_group"}

\* C14: every story has created_at >= its task's created_at and <= the
\* task's completed_at when the task is completed, else <= now; also when
\* completed_at lies in the future or is not after created_at, and when a
\* computed time was pulled back behind now.
C14_StoryWithinLifetime ==
    sg.pc # "idle" =>
        \A j \in 1..Len(sg.stories) :
            LET s == sg.stories[j]
            IN  /\ s.created_at >= TaskOf(s).created_at
                /\ s.created_at <= EndTime(TaskOf(s), sg.now)

\* the tasks whose stories generate has appended to its list so far
Processed == {sg.tasks[sg.order[t]] : t \in 1..sg.k}

\* the first position of a task's stories in the accumulated list
FirstOf(task) ==
    CHOOSE j \in StoriesOf(task) : \A h \in StoriesOf(task) : j <= h

\* C15: for every task processed by generate, the stories emitted for it
\* are one creation story in first position (type task_created, actor the
\* task's creator, created_at the task's created_at) followed by between 1
\* and 7 additional stories.
C15_CreationThenOneToSeven ==
    sg.pc # "idle" =>
        \A task \in Processed :
            /\ StoriesOf(task) # {}
            /\ sg.stories[FirstOf(task)].story_type = "task_created"
            /\ sg.stories[FirstOf(task)].actor_id = task.creator_id
            /\ sg.stories[FirstOf(task)].created_at = task.created_at
            /\ Cardinality(StoriesOf(task)) - 1 >= 1
            /\ Cardinality(StoriesOf(task)) - 1 <= 7

\* C16: for every project with status completed or archived, completed_at
\* lies in the last 40% of the duration window:
\* start_date + 0.6 * duration <= completed_at <= due_date.
C16_CompletedInLastTwoFifths ==
    (ProjectBuilt /\ pg.project.status \in {"completed", "archived"}) =>
        /\ pg.project.completed_at # None
        /\ 10 * (pg.project.completed_at[1] - pg.project.start_date)
              >= 6 * (pg.project.due_date - pg.project.start_date)
        /\ pg.project.completed_at[1] <= pg.project.due_date

\* C17: weighted categorical selection called with an empty list of
\* (value, weight) pairs fails with an InvalidDistribution error and
\* returns no value, in the shared helper and in the generators' own
\* _weighted_choice alike.
C17_EmptyChoiceFails ==
    (wc.pc = "called" /\ wc.choices = <<>>)
      => wc.outcome = Raised("InvalidDistribution")

(***************************************************************************)
(* Properties of the validator                                             *)
(***************************************************************************)
\* the checks among 1-3 that found at least one violation
FailedChecks(db) ==
    {k \in 1..3 :
        \/ k = 1 /\ orphaned(db) > 0
        \/ k = 2 /\ temporal_violations(db) > 0
        \/ k = 3 /\ ref_violations(db) > 0}

StageRank(name) ==
    CASE name = "Organization" -> 1
      [] name = "Teams" -> 2
      [] name = "Users" -> 3
      [] name = "Memberships" -> 4
      [] name = "Projects" -> 5
      [] name = "Tasks" -> 6
      [] OTHER -> 7

C20_PoolsFromEarlierStages ==
    mn.pc = "stage" => Requires(STAGES[mn.stage]) \subseteq mn.pools

\* C21: if a generator stage raises, main ends the process with exit
\* code 1; the failing stage is the last one started, the validator does
\* not run, and nothing happens after the failure (no retry).
C21_StageFailureIsFatal ==
    /\ [](mn.pc # "idle" /\ mn.error # ""
            => /\ mn.pc = "exit"
               /\ mn.exit_code = Some(1)
               /\ Len(mn.started) = mn.stage
               /\ Len(mn.returned) = mn.stage - 1
               /\ val.pc = "idle")
    /\ [][(mn.pc # "idle" /\ mn.error # "") => mn' = mn]_vars

\* the run that ends in the Teams block with a TypeError
C21_Witness ==
    /\ mn.pc = "exit"
    /\ mn.error = "TypeError"
    /\ mn.exit_code = Some(1)
    /\ mn.started = <<"Organization", "Teams">>

\* C23: if the schema file is missing, validate_config ends the process
\* with exit code 1 before the database is initialized and before any
\* generator runs, with or without the API key; a missing API key alone
\* is warned about and the run goes on.
C23_MissingSchemaIsFatal ==
    (mn.pc \notin {"idle", "start"}) =>
        /\ ~mn.schema_exists
              => /\ mn.pc = "exit"
                 /\ mn.exit_code = Some(1)
                 /\ ~mn.db_initialized
                 /\ mn.started = <<>>
        /\ (mn.schema_exists /\ ~mn.api_key)
              => /\ mn.warnings > 0
                 /\ mn.pc = "exit" => mn.error # ""

\* the schema file and the API key are both missing
C23_Witness ==
    /\ mn.pc = "exit"
    /\ ~mn.schema_exists
    /\ ~mn.api_key
    /\ mn.warnings = 2
    /\ mn.exit_code = Some(1)

\* the API key alone is missing and the run has entered its first block
C23_KeyOnlyWitness ==
    /\ mn.pc = "stage"
    /\ mn.schema_exists
    /\ ~mn.api_key

\* C22: when run_validation_checks reports passed = false (a
\* failed_count of 1 or more), main still runs to its end and the process
\* does not exit with code 1: the failure is reported as a warning.
C22_ValidationFailureNotFatal ==
    (val.pc = "complete"
       /\ (~val.result[1].passed \/ val.result[1].failed_count >= 1))
      => /\ val.exit_code = Some(0)
         /\ val.report = "warning"

\* a run completed after all three integrity checks failed
C22_Witness ==
    /\ val.pc = "complete"
    /\ ~val.result[1].passed
    /\ val.result[1].failed_count = 3
    /\ val.exit_code = Some(0)

(***************************************************************************)
(* Writes of the generators                                                *)
(***************************************************************************)
\* nothing of the stage is in the store while its records are being built
\* or after building one of them raised
NothingWritten ==
    /\ ug.pc = "loop" => ug.inserted = -1
    /\ pg.pc \in {"loop", "raised"} => pg.inserted = None
    /\ sg.pc \in {"sample", "loop", "task"} => sg.inserted = None
    /\ tg.pc \in {"department", "additional", "raised"} => tg.inserted = None

\* generate is past its insert_many: it returned, or its _log_statistics
\* raised on the empty list it had written
Written(pc) == pc \in {"done", "log_raised"}

\* the one insert_many carries the list that generate built and returns
WrittenIsReturned ==
    /\ Written(ug.pc) => ug.inserted = ug.n /\ ug.n = ug.target_count
    /\ Written(pg.pc) => pg.inserted = Some(pg.projects)
    /\ Written(sg.pc) => sg.inserted = Some(sg.stories)
    /\ Written(tg.pc) => tg.inserted = Some(tg.teams)

\* after its insert_many a generate call writes nothing more
WrittenOnce ==
    /\ Written(ug.pc) => ug' = ug
    /\ Written(pg.pc) => pg' = pg
    /\ Written(sg.pc) => sg' = sg
    /\ Written(tg.pc) => tg' = tg

\* C24: each of the User, Team, Project and Story generators writes to
\* the store exactly once per generate call: one insert_many, after all
\* records are built, that carries exactly the list generate returns; when
\* building a record raises, nothing of that stage has been written.
C24_OneWriteOfTheReturnedList ==
    /\ [](NothingWritten /\ WrittenIsReturned)
    /\ [][WrittenOnce]_vars

\* a team generation that trimmed its department teams and wrote the
\* trimmed list
C24_Witness ==
    /\ tg.pc = "done"
    /\ Len(DeptSlots(tg.users)) > tg.target_count
    /\ tg.target_count >= 1
    /\ tg.inserted = Some(tg.teams)

\* a project generation that raised and wrote nothing
C24_RaisedWitness == pg.pc = "raised" /\ pg.inserted = None

(***************************************************************************)
(* Seeding of the random stream                                            *)
(***************************************************************************)
\* the number of values that generate draws from the stream in each stage
DrawsOfStage(pc) ==
    IF pc = "organization" THEN 3 ELSE IF pc = "users" THEN 7 ELSE 8

\* C25: constructing any entity generator resets the process-wide random
\* stream to the same fixed seed: after a generator was constructed and
\* has generated, the stream is the one of the seed advanced by the draws
\* of that generate, whatever state the stream was in before.
C25_ConstructionSeeds ==
    \A r \in 1..Len(runs) :
        runs[r].pc # "start"
          => runs[r].rng = Rng(RANDOM_SEED, DrawsOfStage(runs[r].pc))

(***************************************************************************)
(* Last activity of the users                                              *)
(***************************************************************************)
\* C26: every generated user has last_active_at <= now, the generation
\* time, also when the sampled recency date fell before created_at and was
\* replaced.
C26_LastActiveNotAfterNow ==
    UserBuilt => ug.user.last_active_at <= ug.now

(***************************************************************************)
(* The loop of StoryGenerator.generate                                     *)
(***************************************************************************)
\* the tasks whose stories have been asked for so far
TasksProcessed == IF sg.pc = "task" THEN sg.k + 1 ELSE sg.k

\* C27: in StoryGenerator.generate the stories accumulated never exceed
\* target_count, at any iteration and on return; at most
\* min(len(tasks), target_count // 3) tasks are processed, and no task is
\* processed twice.
C27_StoriesWithinTarget ==
    sg.pc \in {"loop", "task", "done"} =>
        /\ Len(sg.stories) + Len(sg.task_stories) <= sg.target_count
        /\ TasksProcessed <= Min(Len(sg.tasks), sg.target_count \div 3)
        /\ TasksProcessed <= Len(sg.order)
        /\ \A a, b \in 1..Len(sg.order) :
               a # b => sg.order[a] # sg.order[b]

\* a generation that reached its target with the first of two sampled
\* tasks and left the loop by break
C27_Witness ==
    /\ sg.pc = "done"
    /\ Len(sg.stories) = sg.target_count
    /\ Len(sg.order) = 2
    /\ sg.k = 1

(***************************************************************************)
(* The number and order of the teams                                       *)
(***************************************************************************)
\* generate is over: it returned or raised
TeamsOver == tg.pc \in {"done", "raised", "log_raised"}

\* the teams of the department table come first, in table order, cut at
\* target_count; the teams after them are fill teams
DepartmentTeamsFirst ==
    LET slots == DeptSlots(tg.users)
    IN  \A j \in 1..Len(tg.teams) :
            IF j <= Len(slots)
            THEN tg.teams[j].name = <<slots[j].department, slots[j].i>>
            ELSE ~FromDepartmentTable(tg.teams[j])

\* C28: for every target_count >= 0 and a non-empty user pool,
\* TeamGenerator.generate returns exactly target_count teams: the
\* department teams in table order first, truncated to target_count when
\* there are more of them, otherwise followed by exactly target_count minus
\* the number of department teams fill teams.
C28_ExactlyTargetTeams ==
    (TeamsOver /\ tg.users # <<>>) =>
        /\ tg.pc = "done"
        /\ Len(tg.teams) = tg.target_count
        /\ DepartmentTeamsFirst

\* what holds of the code: the same for every target_count >= 1
C28_ExactlyTargetTeamsFromOne ==
    (TeamsOver /\ tg.users # <<>> /\ tg.target_count >= 1) =>
        /\ tg.pc = "done"
        /\ Len(tg.teams) = tg.target_count
        /\ DepartmentTeamsFirst

(***************************************************************************)
(* The order of the stories of a task                                      *)
(***************************************************************************)
\* the stories of one task in a list go forward in time
InTimeOrder(stories) ==
    \A a, b \in 1..Len(stories) :
        (a < b /\ stories[a].task_id = stories[b].task_id)
          => stories[a].created_at <= stories[b].created_at

\* C29: within the stories generated for one task, created_at is
\* non-decreasing in list order, the pulled-back times and the forced
\* completion story included.
C29_StoriesInTimeOrder ==
    sg.pc # "idle" =>
        /\ InTimeOrder(sg.stories)
        /\ InTimeOrder(sg.task_stories)

(***************************************************************************)
(* Addresses of one NameGenerator                                          *)
(***************************************************************************)
\* C30: on one NameGenerator instance, whatever generate_email calls are
\* made (names whose natural local part equals an earlier suffixed one
\* included), no address is returned twice and every returned address is in
\* used_emails afterwards.
C30_AddressesUnique ==
    ng.pc # "idle" =>
        /\ \A a, b \in 1..Len(ng.returned) :
               a # b => ng.returned[a] # ng.returned[b]
        /\ \A a \in 1..Len(ng.returned) : ng.returned[a] \in ng.used_emails

\* "Jo Li" twice gives jo.li and jo.li1; "Jo Li1", whose natural address
\* jo.li1 is taken, gets jo.li11
C30_Witness ==
    /\ ng.pc = "ready"
    /\ ng.returned =
          << <<<<"j", "o", ".", "l", "i">>, OrgDomain>>,
             <<<<"j", "o", ".", "l", "i", "1">>, OrgDomain>>,
             <<<<"j", "o", ".", "l", "i", "1", "1">>, OrgDomain>> >>

=============================================================================
